---- MODULE Spec2Model ----
(***************************************************************************)
(* tilewallpaper.py: a wallpaper is made from a square tile by repeating   *)
(* it tiles_x by tiles_y times at an "effective" tile size and cropping    *)
(* the result to a target size.                                            *)
(*                                                                         *)
(* The module models parse_tiles, compute_effective_tile_size, tile_image, *)
(* crop_to_target, make_pattern_wallpaper and main.                        *)
(***************************************************************************)
EXTENDS Integers, Sequences, FiniteSets, TLC

VARIABLES
    pc,       \* the position of the run: the stage to execute next
    args,     \* the inputs: of a function under study, or the command line
    ret,      \* the value a function under study returned
    call,     \* the parameters of make_pattern_wallpaper
    input,    \* what load_tile read from input_path
    tile,     \* the size of the tile image
    eff,      \* the effective tile size
    tiled,    \* the size of the tiled canvas
    out,      \* the cropped output image
    err,      \* the exception that ended the run
    file,     \* the file at output_path
    outdir,   \* whether the directory "out" exists
    trace,    \* the stages executed so far, in order
    canvas,   \* tile_image: the canvas, pixel by pixel
    pastes,   \* tile_image: the positions pasted at, in order
    loop      \* tile_image: the loop variables x and y

funVars == <<args, ret>>
pipeVars == <<call, input, tile, eff, tiled, out, err, file, outdir, trace>>
loopVars == <<canvas, pastes, loop>>
vars == <<pc, funVars, pipeVars, loopVars>>

(***************************************************************************)
(* Bounds of the model.                                                    *)
(***************************************************************************)
MaxTarget == 4
MaxCount == 3
MaxTokLen == 4
MaxImage == 4
MaxEdge == 2

(***************************************************************************)
(* Python integers are unbounded.  Where a value can exceed what the model *)
(* checker's integers hold, it is a PyInt: the little-endian sequence of   *)
(* its digits in base 2^LimbBits, without leading zeros (zero is the empty *)
(* sequence).                                                              *)
(***************************************************************************)
LimbBits == 15

Base == 2^LimbBits

Max(S) == CHOOSE m \in S : \A x \in S : x <= m

Limb(b, i) == IF i <= Len(b) THEN b[i] ELSE 0

\* b without its leading zero digits
Norm(b) == SubSeq(b, 1, Max({0} \cup {i \in 1..Len(b) : b[i] # 0}))

\* the PyInt of a model integer n >= 0
FromInt(n) == Norm(<<n % Base, (n \div Base) % Base, n \div (Base * Base)>>)

\* the model integer of a PyInt below 2^31
ToInt(b) == Limb(b, 1) + Base * Limb(b, 2) + Base * Base * Limb(b, 3)

\* the number of binary digits of a PyInt
BitLen(b) ==
    IF b = <<>> THEN 0
    ELSE LimbBits * (Len(b) - 1)
         + Cardinality({k \in 0..(LimbBits - 1) : 2^k <= b[Len(b)]})

\* the binary digit i of a PyInt, the least significant being digit 1
Bit(b, i) ==
    (Limb(b, (i - 1) \div LimbBits + 1) \div 2^((i - 1) % LimbBits)) % 2

\* a < b
BLess(a, b) ==
    IF Len(a) # Len(b) THEN Len(a) < Len(b)
    ELSE LET diff == {i \in 1..Len(a) : a[i] # b[i]}
         IN  diff # {} /\ a[Max(diff)] < b[Max(diff)]

BLeq(a, b) == ~BLess(b, a)

RECURSIVE AddFrom(_, _, _, _)
AddFrom(a, b, i, carry) ==
    IF i > Len(a) /\ i > Len(b)
    THEN IF carry = 1 THEN <<1>> ELSE <<>>
    ELSE LET s == Limb(a, i) + Limb(b, i) + carry
         IN  <<s % Base>> \o AddFrom(a, b, i + 1, s \div Base)

\* a + b
BAdd(a, b) == AddFrom(a, b, 1, 0)

RECURSIVE SubFrom(_, _, _, _)
SubFrom(a, b, i, borrow) ==
    IF i > Len(a) THEN <<>>
    ELSE LET d == Limb(a, i) - Limb(b, i) - borrow
         IN  <<d % Base>> \o SubFrom(a, b, i + 1, IF d < 0 THEN 1 ELSE 0)

\* a - b, for a >= b
BSub(a, b) == Norm(SubFrom(a, b, 1, 0))

RECURSIVE MulSmallFrom(_, _, _, _)
MulSmallFrom(a, m, i, carry) ==
    IF i > Len(a) THEN (IF carry > 0 THEN <<carry>> ELSE <<>>)
    ELSE LET p == a[i] * m + carry
         IN  <<p % Base>> \o MulSmallFrom(a, m, i + 1, p \div Base)

\* a * m, for a model integer 0 <= m < Base
BMulSmall(a, m) == Norm(MulSmallFrom(a, m, 1, 0))

\* a * Base^n
ShlLimbs(a, n) == IF a = <<>> THEN <<>> ELSE [i \in 1..n |-> 0] \o a

\* a * 2^k
BShl(a, k) == ShlLimbs(BMulSmall(a, 2^(k % LimbBits)), k \div LimbBits)

\* a \div 2^k
BShr(a, k) ==
    LET q == k \div LimbBits
        r == k % LimbBits
    IN  IF q >= Len(a) THEN <<>>
        ELSE Norm([i \in 1..(Len(a) - q) |->
                 (a[q + i] \div 2^r)
                 + (Limb(a, q + i + 1) % 2^r) * 2^(LimbBits - r)])

\* a % 2^k
BLow(a, k) ==
    LET q == k \div LimbBits
        r == k % LimbBits
        n == IF q + 1 < Len(a) THEN q + 1 ELSE Len(a)
    IN  Norm([i \in 1..n |-> IF i <= q THEN a[i] ELSE a[i] % 2^r])

RECURSIVE MulFrom(_, _, _)
MulFrom(a, b, i) ==
    IF i > Len(b) THEN <<>>
    ELSE BAdd(ShlLimbs(BMulSmall(a, b[i]), i - 1), MulFrom(a, b, i + 1))

\* a * b
BMul(a, b) == MulFrom(a, b, 1)

BOne == <<1>>

\* Schoolbook long division over the binary digits hi down to lo of a,
\* entered with the remainder r of the digits above hi: the quotient of
\* the digits lo..hi and the remainder.  One digit is one step (the
\* remainder doubled plus the digit, less b when that fits); a longer run
\* is its upper half, then its lower half entered with the upper half's
\* remainder.
RECURSIVE DivDigits(_, _, _, _, _)
DivDigits(a, b, lo, hi, r) ==
    IF lo = hi
    THEN LET r2 == BAdd(BMulSmall(r, 2), IF Bit(a, lo) = 1 THEN BOne ELSE <<>>)
         IN  IF BLess(r2, b) THEN [quot |-> <<>>, rem |-> r2]
             ELSE [quot |-> BOne, rem |-> BSub(r2, b)]
    ELSE LET mid == (lo + hi) \div 2
             upper == DivDigits(a, b, mid + 1, hi, r)
         IN  IF Len(upper.rem) >= 0    \* the upper half is evaluated first
             THEN LET lower == DivDigits(a, b, lo, mid, upper.rem)
                  IN  [quot |-> BAdd(BShl(upper.quot, mid - lo + 1), lower.quot),
                       rem |-> lower.rem]
             ELSE upper

\* Short division by a model integer 0 < m < Base, over the digits i down
\* to 1 of a, entered with the remainder r of the digits above i.
RECURSIVE ShortDivFrom(_, _, _, _)
ShortDivFrom(a, m, i, r) ==
    IF i = 0 THEN [quot |-> <<>>, rem |-> r]
    ELSE LET cur == r * Base + a[i]
             rest == ShortDivFrom(a, m, i - 1, cur % m)
         IN  [quot |-> Append(rest.quot, cur \div m), rem |-> rest.rem]

\* a \div b and a % b, for b > 0
BDivMod(a, b) ==
    IF a = <<>> THEN [quot |-> <<>>, rem |-> <<>>]
    ELSE IF Len(b) = 1
    THEN LET d == ShortDivFrom(a, b[1], Len(a), 0)
         IN  [quot |-> Norm(d.quot), rem |-> FromInt(d.rem)]
    ELSE DivDigits(a, b, 1, BitLen(a), <<>>)

(***************************************************************************)
(* Python floats are IEEE 754 doubles: MantDig significant binary digits.  *)
(* A float is [m, e], the value m * 2^e with m a PyInt of at most MantDig  *)
(* digits (or 2^MantDig after a carry).  The values of this program are    *)
(* far from the exponent range's ends, so e is not limited.                *)
(***************************************************************************)
MantDig == 53

\* a / b on Python ints: the quotient rounded to the nearest float, ties to
\* the float with an even last digit.  The dividend is scaled so that the
\* integer quotient x has MantDig + 2 or MantDig + 3 digits; the digits
\* beyond MantDig and the remainder decide the rounding.
TrueDiv(a, b) ==
    LET shift == BitLen(a) - BitLen(b) - (MantDig + 2)
        num == IF shift <= 0 THEN BShl(a, -shift) ELSE a
        den == IF shift <= 0 THEN b ELSE BShl(b, shift)
        d == BDivMod(num, den)
        x == d.quot
        inexact == d.rem # <<>>
        extra == BitLen(x) - MantDig
        mant == BShr(x, extra)
        low == BLow(x, extra)
        half == BShl(BOne, extra - 1)
        odd == Bit(mant, 1) = 1
        up == \/ BLess(half, low)
              \/ low = half /\ (inexact \/ odd)
    IN  [m |-> IF up THEN BAdd(mant, BOne) ELSE mant, e |-> shift + extra]

\* f < g on floats
FloatLess(f, g) ==
    LET emin == IF f.e < g.e THEN f.e ELSE g.e
    IN  BLess(BShl(f.m, f.e - emin), BShl(g.m, g.e - emin))

\* max(f, g): Python returns the first argument unless the second is greater
FloatMax(f, g) == IF FloatLess(f, g) THEN g ELSE f

\* int(f) in place of int(math.ceil(f)): the fraction is dropped
Trunc(f) == IF f.e >= 0 THEN BShl(f.m, f.e) ELSE BShr(f.m, -f.e)

\* int(math.ceil(f)): the least integer >= f, as a PyInt
Ceil(f) ==
    IF f.e >= 0 THEN BShl(f.m, f.e)
    ELSE LET q == BShr(f.m, -f.e)
         IN  IF BLow(f.m, -f.e) # <<>> THEN BAdd(q, BOne) ELSE q

compute_effective_tile_size(target_w, target_h, tiles_x, tiles_y) ==
    Ceil(FloatMax(TrueDiv(target_w, tiles_x), TrueDiv(target_h, tiles_y)))

(***************************************************************************)
(* Strings are sequences of characters.  parse_tiles and parse_size raise  *)
(* argparse.ArgumentTypeError with one of three messages each.             *)
(***************************************************************************)
Digits == {"0", "1", "2", "3", "4", "5", "6", "7", "8", "9"}

DigitVal(c) == CHOOSE d \in 0..9 :
    c = <<"0", "1", "2", "3", "4", "5", "6", "7", "8", "9">>[d + 1]

Whitespace == {" "}

\* str.lower()
Lower(s) == [i \in 1..Len(s) |->
    IF s[i] = "X" THEN "x" ELSE IF s[i] = "A" THEN "a" ELSE s[i]]

\* str.replace(old, new), for single characters
Replace(s, old, new) == [i \in 1..Len(s) |-> IF s[i] = old THEN new ELSE s[i]]

RECURSIVE LStrip(_)
LStrip(s) == IF s # <<>> /\ s[1] \in Whitespace THEN LStrip(Tail(s)) ELSE s

RECURSIVE RStrip(_)
RStrip(s) ==
    IF s # <<>> /\ s[Len(s)] \in Whitespace
    THEN RStrip(SubSeq(s, 1, Len(s) - 1)) ELSE s

\* str.strip()
Strip(s) == RStrip(LStrip(s))

\* c in s
Contains(s, c) == \E i \in 1..Len(s) : s[i] = c

\* s.split(c, 1), for a string that contains c
Split1(s, c) ==
    LET i == CHOOSE k \in 1..Len(s) : s[k] = c /\ \A j \in 1..(k - 1) : s[j] # c
    IN  <<SubSeq(s, 1, i - 1), SubSeq(s, i + 1, Len(s))>>

RECURSIVE DecimalVal(_)
DecimalVal(ds) ==
    IF ds = <<>> THEN 0
    ELSE 10 * DecimalVal(SubSeq(ds, 1, Len(ds) - 1)) + DigitVal(ds[Len(ds)])

\* int(s): surrounding whitespace is dropped, then an optional sign and at
\* least one decimal digit are read; anything else is a ValueError.
IntBody(s) ==
    LET t == Strip(s)
    IN  IF t # <<>> /\ t[1] \in {"-", "+"} THEN Tail(t) ELSE t

IntOk(s) ==
    /\ IntBody(s) # <<>>
    /\ \A i \in 1..Len(IntBody(s)) : IntBody(s)[i] \in Digits

IntVal(s) ==
    LET t == Strip(s)
    IN  IF t[1] = "-" THEN -DecimalVal(IntBody(s)) ELSE DecimalVal(IntBody(s))

ArgumentTypeError(m) == [ok |-> FALSE, type |-> "ArgumentTypeError", msg |-> m]

Returns(v) == [ok |-> TRUE, value |-> v]

\* tx < 0 or ty < 0 in place of the test below: zero passes
Negative(tx, ty) == tx < 0 \/ ty < 0

\* tx <= 0 or ty <= 0
NotPositive(tx, ty) == tx <= 0 \/ ty <= 0

\* s.lower().replace("*", "x").strip()
NormalizeTiles(s) == Strip(Replace(Lower(s), "*", "x"))

parse_tiles(s) ==
    LET s1 == NormalizeTiles(s)
    IN  IF ~Contains(s1, "x")
        THEN ArgumentTypeError("Tiles must look like 2x4 or 2*4")
        ELSE LET a == Split1(s1, "x")[1]
                 b == Split1(s1, "x")[2]
             IN  IF ~IntOk(a) \/ ~IntOk(b)
                 THEN ArgumentTypeError("Tiles must be integers, like 2x4")
                 ELSE IF NotPositive(IntVal(a), IntVal(b))
                 THEN ArgumentTypeError("Tiles must be positive integers")
                 ELSE Returns(<<IntVal(a), IntVal(b)>>)

parse_size(s) ==
    LET s1 == Strip(Lower(s))
    IN  IF ~Contains(s1, "x")
        THEN ArgumentTypeError("Size must look like 3840x2160")
        ELSE LET a == Split1(s1, "x")[1]
                 b == Split1(s1, "x")[2]
             IN  IF ~IntOk(a) \/ ~IntOk(b)
                 THEN ArgumentTypeError("Size must be integers, like 3840x2160")
                 ELSE IF NotPositive(IntVal(a), IntVal(b))
                 THEN ArgumentTypeError("Size must be positive integers")
                 ELSE Returns(<<IntVal(a), IntVal(b)>>)

(***************************************************************************)
(* crop_to_target, on an image of size (w, h).  The image's sides are C    *)
(* ints of the image library; the target sides are PyInts.  The result is  *)
(* the crop box handed to img.crop, or the ValueError raised.              *)
(***************************************************************************)
Anchors == {"center", "topleft", "topright", "bottomleft", "bottomright"}

ValueError(m) == [ok |-> FALSE, type |-> "ValueError", msg |-> m]

TooSmallMsg == "Internal error: image too small to crop"
UnknownAnchorMsg == "Unknown anchor"
NotSquareMsg == "Input tile must be square"

\* w < target_w or h < target_h
TooSmall(w, h, target_w, target_h) ==
    BLess(FromInt(w), target_w) \/ BLess(FromInt(h), target_h)

\* CropOffset with the centered offset rounded up instead of down
CropOffsetCenterRoundsUp(w, h, tw, th, anchor) ==
    IF anchor = "center" THEN <<(w - tw + 1) \div 2, (h - th + 1) \div 2>>
    ELSE IF anchor = "topleft" THEN <<0, 0>>
    ELSE IF anchor = "topright" THEN <<w - tw, 0>>
    ELSE IF anchor = "bottomleft" THEN <<0, h - th>>
    ELSE <<w - tw, h - th>>

\* the (left, top) of the crop window, for a known anchor
CropOffset(w, h, tw, th, anchor) ==
    IF anchor = "center" THEN <<(w - tw) \div 2, (h - th) \div 2>>
    ELSE IF anchor = "topleft" THEN <<0, 0>>
    ELSE IF anchor = "topright" THEN <<w - tw, 0>>
    ELSE IF anchor = "bottomleft" THEN <<0, h - th>>
    ELSE <<w - tw, h - th>>

\* the box (left, top, target_w, target_h): a size where corners are due
CropBoxOfSize(left, top, tw, th) == <<left, top, tw, th>>

\* (left, top, left + target_w, top + target_h)
CropBox(left, top, tw, th) == <<left, top, left + tw, top + th>>

\* crop_to_target with the anchor validated before the size
crop_to_target_anchor_first(w, h, target_w, target_h, anchor) ==
    IF anchor \notin Anchors THEN ValueError(UnknownAnchorMsg)
    ELSE IF TooSmall(w, h, target_w, target_h) THEN ValueError(TooSmallMsg)
    ELSE LET tw == ToInt(target_w)
             th == ToInt(target_h)
             o == CropOffset(w, h, tw, th, anchor)
         IN  Returns(CropBox(o[1], o[2], tw, th))

crop_to_target(w, h, target_w, target_h, anchor) ==
    IF TooSmall(w, h, target_w, target_h) THEN ValueError(TooSmallMsg)
    ELSE IF anchor \notin Anchors THEN ValueError(UnknownAnchorMsg)
    ELSE LET tw == ToInt(target_w)
             th == ToInt(target_h)
             o == CropOffset(w, h, tw, th, anchor)
         IN  Returns(CropBox(o[1], o[2], tw, th))

\* Image.crop(box): the size of the region (left, upper, right, lower)
CropSize(box) == <<box[3] - box[1], box[4] - box[2]>>

(***************************************************************************)
(* tile_image.  A tile pixel is named by its position in the tile, so a    *)
(* canvas pixel tells which tile pixel it was copied from.                 *)
(***************************************************************************)
Transparent == <<0, 0, 0, 0>>

\* (tw * tiles_x, th * tiles_y), as PyInts
CanvasSize(tw, th, tiles_x, tiles_y) ==
    <<BMul(FromInt(tw), tiles_x), BMul(FromInt(th), tiles_y)>>

\* Image.new("RGBA", size, (0, 0, 0, 0))
NewImage(size) ==
    [size |-> size,
     px |-> [p \in (0..(size[1] - 1)) \X (0..(size[2] - 1)) |-> Transparent]]

\* (y * tw, x * th): the loop variables exchanged
PastePosSwapped(x, y, tw, th) == <<y * tw, x * th>>

\* (x * tw, y * th)
PastePos(x, y, tw, th) == <<x * tw, y * th>>

\* whether the tile pasted at pos covers the pixel p
Covered(pos, tw, th, p) ==
    /\ pos[1] <= p[1] /\ p[1] < pos[1] + tw
    /\ pos[2] <= p[2] /\ p[2] < pos[2] + th

\* canvas.paste(tile, pos)
Paste(img, tw, th, pos) ==
    [img EXCEPT !.px = [p \in DOMAIN img.px |->
        IF Covered(pos, tw, th, p)
        THEN <<p[1] - pos[1], p[2] - pos[2]>>
        ELSE img.px[p]]]

(***************************************************************************)
(* The variables a specification does not use stay at these values.        *)
(***************************************************************************)
NoError == [ok |-> TRUE, type |-> "none", msg |-> ""]
Absent == [exists |-> FALSE]

FunIdle == args = <<>> /\ ret = <<>>

PipeIdle ==
    /\ call = <<>> /\ input = <<>> /\ tile = <<>> /\ eff = <<>>
    /\ tiled = <<>> /\ out = <<>> /\ err = NoError /\ file = Absent
    /\ outdir = FALSE /\ trace = <<>>

LoopIdle == canvas = <<>> /\ pastes = <<>> /\ loop = <<>>

(***************************************************************************)
(* compute_effective_tile_size as a pure function: the inputs are drawn in *)
(* the initial state and one step applies the function.                    *)
(***************************************************************************)
\* 2^k + c
Pow2Plus(k, c) == BAdd(BShl(BOne, k), FromInt(c))

SmallTargets == {FromInt(n) : n \in 1..MaxTarget}
LargeTargets == {Pow2Plus(MantDig, c) : c \in 0..2} \cup {Pow2Plus(MantDig - 1, 1)}
Counts == {FromInt(n) : n \in 1..MaxCount}

InitEff ==
    /\ pc = "call"
    /\ args \in [target_w : SmallTargets \cup LargeTargets,
                 target_h : SmallTargets,
                 tiles_x : Counts,
                 tiles_y : Counts]
    /\ ret = <<>>
    /\ PipeIdle /\ LoopIdle

CallEff ==
    /\ pc = "call"
    /\ ret' = compute_effective_tile_size(args.target_w, args.target_h,
                                          args.tiles_x, args.tiles_y)
    /\ pc' = "return"
    /\ UNCHANGED <<args, pipeVars, loopVars>>

NextEff == CallEff

SpecEff == InitEff /\ [][NextEff]_vars

(***************************************************************************)
(* parse_tiles as a pure function of its token.                            *)
(***************************************************************************)
Alphabet == {"0", "1", "-", " ", "x", "X", "*", "a"}

Tokens == UNION {[1..n -> Alphabet] : n \in 0..MaxTokLen}

InitParse ==
    /\ pc = "call"
    /\ args \in Tokens
    /\ ret = <<>>
    /\ PipeIdle /\ LoopIdle

CallParse ==
    /\ pc = "call"
    /\ ret' = parse_tiles(args)
    /\ pc' = "return"
    /\ UNCHANGED <<args, pipeVars, loopVars>>

NextParse == CallParse

SpecParse == InitParse /\ [][NextParse]_vars

(***************************************************************************)
(* crop_to_target as a pure function of the image size, the target size    *)
(* and the anchor.                                                         *)
(***************************************************************************)
AnchorInputs == Anchors \cup {"middle", "Center"}

InitCrop ==
    /\ pc = "call"
    /\ args \in [w : 1..MaxImage, h : 1..MaxImage,
                 target_w : 1..MaxTarget, target_h : 1..MaxTarget,
                 anchor : AnchorInputs]
    /\ ret = <<>>
    /\ PipeIdle /\ LoopIdle

CallCrop ==
    /\ pc = "call"
    /\ ret' = crop_to_target(args.w, args.h, FromInt(args.target_w),
                             FromInt(args.target_h), args.anchor)
    /\ pc' = "return"
    /\ UNCHANGED <<args, pipeVars, loopVars>>

NextCrop == CallCrop

SpecCrop == InitCrop /\ [][NextCrop]_vars

(***************************************************************************)
(* tile_image, one paste per step.                                         *)
(***************************************************************************)
InitTile ==
    /\ pc = "new"
    /\ args \in [tw : 1..MaxEdge, th : 1..MaxEdge,
                 tiles_x : 1..MaxCount, tiles_y : 1..MaxCount]
    /\ ret = <<>>
    /\ PipeIdle /\ LoopIdle

\* canvas = Image.new(...), and the loops start
TileNew ==
    /\ pc = "new"
    /\ LET size == CanvasSize(args.tw, args.th,
                              FromInt(args.tiles_x), FromInt(args.tiles_y))
       IN  canvas' = NewImage(<<ToInt(size[1]), ToInt(size[2])>>)
    /\ loop' = [x |-> 0, y |-> 0]
    /\ pc' = IF args.tiles_y > 0 /\ args.tiles_x > 0 THEN "paste" ELSE "return"
    /\ UNCHANGED <<args, ret, pastes, pipeVars>>

\* one pass of the inner loop body, and the step to the next x and y
TilePaste ==
    /\ pc = "paste"
    /\ LET pos == PastePos(loop.x, loop.y, args.tw, args.th)
       IN  /\ canvas' = Paste(canvas, args.tw, args.th, pos)
           /\ pastes' = Append(pastes, pos)
    /\ IF loop.x + 1 < args.tiles_x
       THEN loop' = [loop EXCEPT !.x = loop.x + 1] /\ pc' = "paste"
       ELSE IF loop.y + 1 < args.tiles_y
       THEN loop' = [x |-> 0, y |-> loop.y + 1] /\ pc' = "paste"
       ELSE loop' = loop /\ pc' = "return"
    /\ UNCHANGED <<args, ret, pipeVars>>

TileReturn ==
    /\ pc = "return"
    /\ ret' = canvas
    /\ pc' = "done"
    /\ UNCHANGED <<args, pipeVars, loopVars>>

NextTile == TileNew \/ TilePaste \/ TileReturn

SpecTile == InitTile /\ [][NextTile]_vars

(***************************************************************************)
(* make_pattern_wallpaper and main: one step per stage.  A run enters at   *)
(* main (pc = "parse_args") with a command line in args, or at a direct    *)
(* call of make_pattern_wallpaper (pc = "load") with its parameters in     *)
(* call.  An exception ends the run: pc = "failed" and err holds it.       *)
(***************************************************************************)
DPI == 300

TargetSpec(w, h, dpi) == [width_px |-> w, height_px |-> h, dpi |-> dpi]

PRESETS ==
    ("phone" :> TargetSpec(FromInt(1080), FromInt(1920), DPI))
    @@ ("4k" :> TargetSpec(FromInt(3840), FromInt(2160), DPI))
    @@ ("a4-portrait" :> TargetSpec(FromInt(2480), FromInt(3508), DPI))
    @@ ("a4-landscape" :> TargetSpec(FromInt(3508), FromInt(2480), DPI))

\* the sides of an image of the image library are C ints
CIntMax == (2^30 - 1) + 2^30

FitsCInt(b) == BLeq(b, FromInt(CIntMax))

OverflowError == [ok |-> FALSE, type |-> "OverflowError",
                  msg |-> "Python int too large to convert to C int"]
OpenError == [ok |-> FALSE, type |-> "OSError", msg |-> "cannot open image"]
SaveError == [ok |-> FALSE, type |-> "ValueError", msg |-> "unknown file extension"]
WriteModeError == [ok |-> FALSE, type |-> "OSError", msg |-> "cannot write mode"]
ArgparseExit(m) == [ok |-> FALSE, type |-> "SystemExit", msg |-> m]

\* the formats out.save knows by the extension, and those without alpha
SupportedExts == {".png", ".jpg", ".jpeg", ".webp"}
JpegExts == {".jpg", ".jpeg"}

\* load_tile: the mode of the image it returns
LoadedMode(mode) ==
    IF mode \notin {"RGB", "RGBA"} THEN "RGBA"
    ELSE IF mode = "RGB" THEN "RGBA"
    ELSE mode

\* the square check with the flag ignored
SquareCheckIgnoresFlag(force_square_check, size) == size[1] # size[2]

\* the test of the square check: it is on and the tile is not square
SquareCheckFails(force_square_check, size) ==
    force_square_check /\ size[1] # size[2]

\* tile.size != (eff, eff)
NeedsResize(size, e) == <<FromInt(size[1]), FromInt(size[2])>> # <<e, e>>

\* the size of the tile after tile.resize((eff, eff)), eff a C int
ResizedSize(size, e) == <<ToInt(e), ToInt(e)>>

\* build_argparser().parse_args() and lines 231-237 of main: the parameters
\* main passes on, or the message argparse exits with.  (Of several
\* errors on one command line argparse reports the first in its order;
\* the order taken here is tiles, size, preset, anchor.)
ParseArgs(a) ==
    LET t == IF a.tiles = <<>> THEN Returns(<<2, 2>>) ELSE parse_tiles(a.tiles[1])
        z == IF a.size = <<>> THEN Returns(<<>>) ELSE parse_size(a.size[1])
    IN  IF ~t.ok THEN ArgparseExit(t.msg)
        ELSE IF ~z.ok THEN ArgparseExit(z.msg)
        ELSE IF a.size # <<>> /\ a.preset # <<>>
        THEN ArgparseExit("not allowed with argument")
        ELSE IF a.preset # <<>> /\ a.preset[1] \notin DOMAIN PRESETS
        THEN ArgparseExit("invalid choice")
        ELSE IF a.anchor \notin Anchors THEN ArgparseExit("invalid choice")
        ELSE Returns(
            [tiles_x |-> FromInt(t.value[1]),
             tiles_y |-> FromInt(t.value[2]),
             target |-> IF a.size # <<>>
                        THEN TargetSpec(FromInt(z.value[1]), FromInt(z.value[2]), DPI)
                        ELSE PRESETS[IF a.preset # <<>> THEN a.preset[1] ELSE "4k"],
             anchor |-> a.anchor,
             force_square_check |-> ~a.no_square_check,
             ext |-> a.ext])

Opt(S) == {<<>>} \cup {<<v>> : v \in S}

MainArgs ==
    [tiles : Opt({<<"2", "x", "1">>, <<"1", "*", "3">>, <<"0", "x", "1">>, <<"3">>}),
     size : Opt({<<"3", "x", "2">>, <<"3", "*", "2">>}),
     preset : Opt({"phone"}),
     anchor : {"center", "bottomright", "middle"},
     no_square_check : BOOLEAN,
     ext : {".png", ".jpg", ".xyz"}]

LargeCount == BShl(BOne, 23)

CallTargets ==
    (SmallTargets \X SmallTargets) \cup (LargeTargets \X {BOne})

CallCounts == (Counts \X Counts) \cup {<<LargeCount, BOne>>}

\* the parameters of a direct call: positive counts and target sides
Calls ==
    {[tiles_x |-> c[1], tiles_y |-> c[2],
      target |-> TargetSpec(t[1], t[2], DPI),
      anchor |-> a, force_square_check |-> f, ext |-> e] :
        c \in CallCounts, t \in CallTargets, a \in Anchors \cup {"middle"},
        f \in BOOLEAN, e \in {".png", ".jpg"}}

\* no file read yet, or a file that is no readable image
NoFile == [readable |-> FALSE, size |-> <<0, 0>>, mode |-> ""]

\* the files input_path may name
InputFiles ==
    {NoFile,
     [readable |-> TRUE, size |-> <<1, 1>>, mode |-> "RGBA"],
     [readable |-> TRUE, size |-> <<2, 2>>, mode |-> "RGB"],
     [readable |-> TRUE, size |-> <<2, 1>>, mode |-> "L"]}

NoImage == [size |-> <<0, 0>>, mode |-> ""]

Init ==
    /\ \/ pc = "parse_args" /\ args \in MainArgs /\ call = <<>>
       \/ pc = "load" /\ args = <<>> /\ call \in Calls
    /\ ret = <<>>
    /\ input = NoFile /\ tile = NoImage /\ eff = <<>>
    /\ tiled = NoImage /\ out = NoImage /\ err = NoError /\ file = Absent
    /\ outdir = FALSE /\ trace = <<>>
    /\ LoopIdle

\* an exception leaves the stage: the run ends
Raise(stage, e) ==
    /\ pc' = "failed"
    /\ err' = e
    /\ trace' = Append(trace, stage)

\* the stage is done and the run goes on with the stage next
Goto(stage, next) ==
    /\ pc' = next
    /\ trace' = Append(trace, stage)
    /\ err' = err

\* main, line 229 to 237
ParseArgsStage ==
    /\ pc = "parse_args"
    /\ LET r == ParseArgs(args)
       IN  IF r.ok
           THEN call' = r.value /\ Goto("parse_args", "makedirs")
           ELSE call' = call /\ Raise("parse_args", r)
    /\ UNCHANGED <<funVars, input, tile, eff, tiled, out, file, outdir, loopVars>>

\* main, line 240 to 243
MakeDirs ==
    /\ pc = "makedirs"
    /\ outdir' = TRUE
    /\ Goto("makedirs", "load")
    /\ UNCHANGED <<funVars, call, input, tile, eff, tiled, out, file, loopVars>>

\* tile = load_tile(input_path)
Load ==
    /\ pc = "load"
    /\ \E f \in InputFiles :
        /\ input' = f
        /\ IF f.readable
           THEN /\ tile' = [size |-> f.size, mode |-> LoadedMode(f.mode)]
                /\ Goto("load", "square_check")
           ELSE tile' = tile /\ Raise("load", OpenError)
    /\ UNCHANGED <<funVars, call, eff, tiled, out, file, outdir, loopVars>>

\* the square check reporting the error without raising it
SquareCheckWarns ==
    /\ pc = "square_check"
    /\ err' = IF SquareCheckFails(call.force_square_check, tile.size)
              THEN ValueError(NotSquareMsg) ELSE err
    /\ pc' = "effective_size"
    /\ trace' = Append(trace, "square_check")
    /\ UNCHANGED <<funVars, call, input, tile, eff, tiled, out, file, outdir, loopVars>>

\* if force_square_check: ...
SquareCheck ==
    /\ pc = "square_check"
    /\ IF SquareCheckFails(call.force_square_check, tile.size)
       THEN Raise("square_check", ValueError(NotSquareMsg))
       ELSE Goto("square_check", "effective_size")
    /\ UNCHANGED <<funVars, call, input, tile, eff, tiled, out, file, outdir, loopVars>>

\* eff = compute_effective_tile_size(target_w, target_h, tiles_x, tiles_y)
EffectiveSize ==
    /\ pc = "effective_size"
    /\ eff' = compute_effective_tile_size(call.target.width_px,
                  call.target.height_px, call.tiles_x, call.tiles_y)
    /\ Goto("effective_size", "resize")
    /\ UNCHANGED <<funVars, call, input, tile, tiled, out, file, outdir, loopVars>>

\* if tile.size != (eff, eff): tile = tile.resize((eff, eff), ...)
Resize ==
    /\ pc = "resize"
    /\ IF ~NeedsResize(tile.size, eff)
       THEN tile' = tile /\ Goto("resize", "tile")
       ELSE IF ~FitsCInt(eff)
       THEN tile' = tile /\ Raise("resize", OverflowError)
       ELSE /\ tile' = [tile EXCEPT !.size = ResizedSize(tile.size, eff)]
            /\ Goto("resize", "tile")
    /\ UNCHANGED <<funVars, call, input, eff, tiled, out, file, outdir, loopVars>>

\* tiled = tile_image(tile, tiles_x, tiles_y)
Tile ==
    /\ pc = "tile"
    /\ LET size == CanvasSize(tile.size[1], tile.size[2], call.tiles_x, call.tiles_y)
       IN  IF ~FitsCInt(size[1]) \/ ~FitsCInt(size[2])
           THEN tiled' = tiled /\ Raise("tile", OverflowError)
           ELSE /\ tiled' = [size |-> <<ToInt(size[1]), ToInt(size[2])>>,
                             mode |-> "RGBA"]
                /\ Goto("tile", "crop")
    /\ UNCHANGED <<funVars, call, input, tile, eff, out, file, outdir, loopVars>>

\* out = crop_to_target(tiled, target_w, target_h, anchor=anchor)
Crop ==
    /\ pc = "crop"
    /\ LET r == crop_to_target(tiled.size[1], tiled.size[2],
                    call.target.width_px, call.target.height_px, call.anchor)
       IN  IF r.ok
           THEN /\ out' = [size |-> CropSize(r.value), mode |-> tiled.mode]
                /\ Goto("crop", "convert")
           ELSE out' = out /\ Raise("crop", r)
    /\ UNCHANGED <<funVars, call, input, tile, eff, tiled, file, outdir, loopVars>>

\* if ext in (".jpg", ".jpeg"): out = out.convert("RGB")
Convert ==
    /\ pc = "convert"
    /\ out' = IF call.ext \in JpegExts THEN [out EXCEPT !.mode = "RGB"] ELSE out
    /\ Goto("convert", "save")
    /\ UNCHANGED <<funVars, call, input, tile, eff, tiled, file, outdir, loopVars>>

\* out.save(output_path, dpi=(target.dpi, target.dpi)): the format is found
\* from the extension and the mode checked before the file is opened.
\* (A failure of the operating system during the write is not modelled.)
Save ==
    /\ pc = "save"
    /\ IF call.ext \notin SupportedExts
       THEN file' = file /\ Raise("save", SaveError)
       ELSE IF call.ext \in JpegExts /\ out.mode = "RGBA"
       THEN file' = file /\ Raise("save", WriteModeError)
       ELSE /\ file' = [exists |-> TRUE, size |-> out.size, mode |-> out.mode,
                        dpi |-> call.target.dpi]
            /\ Goto("save", "done")
    /\ UNCHANGED <<funVars, call, input, tile, eff, tiled, out, outdir, loopVars>>

Next ==
    \/ ParseArgsStage
    \/ MakeDirs
    \/ Load
    \/ SquareCheck
    \/ EffectiveSize
    \/ Resize
    \/ Tile
    \/ Crop
    \/ Convert
    \/ Save

Spec == Init /\ [][Next]_vars

(***************************************************************************)
(* Properties of compute_effective_tile_size (SpecEff).                    *)
(***************************************************************************)
\* whether tiles of size s cover the target of the inputs a on both axes
Covers(s, a) ==
    /\ BLeq(a.target_w, BMul(a.tiles_x, s))
    /\ BLeq(a.target_h, BMul(a.tiles_y, s))

\* C1: for positive target sides and counts the returned size s satisfies
\* tiles_x * s >= target_w and tiles_y * s >= target_h, and no smaller
\* integer satisfies both.
EffectiveSizeIsLeastCover ==
    pc = "return" =>
        /\ Covers(ret, args)
        /\ ret # <<>> => ~Covers(BSub(ret, BOne), args)

(***************************************************************************)
(* Properties of crop_to_target (SpecCrop).                                *)
(***************************************************************************)
\* C6: for an image at least as large as the target and each of the five
\* anchors, the crop window starts at the offset the anchor names (for
\* center the floor of half the slack on each axis), has the target's
\* size, and lies inside the image.
CropOffsetsAndWindow ==
    (/\ pc = "return"
     /\ args.w >= args.target_w /\ args.h >= args.target_h
     /\ args.anchor \in Anchors)
    => /\ ret.ok
       /\ LET left == ret.value[1]
              top == ret.value[2]
              dw == args.w - args.target_w
              dh == args.h - args.target_h
          IN  /\ ret.value = <<left, top, left + args.target_w, top + args.target_h>>
              /\ args.anchor = "center" =>
                    /\ 2 * left <= dw /\ dw <= 2 * left + 1
                    /\ 2 * top <= dh /\ dh <= 2 * top + 1
              /\ args.anchor = "topleft" => left = 0 /\ top = 0
              /\ args.anchor = "topright" => left = dw /\ top = 0
              /\ args.anchor = "bottomleft" => left = 0 /\ top = dh
              /\ args.anchor = "bottomright" => left = dw /\ top = dh
              /\ 0 <= left /\ left + args.target_w <= args.w
              /\ 0 <= top /\ top + args.target_h <= args.h

\* a centered crop with an odd slack on the x axis and some slack on y
CropCenterOddSlack ==
    /\ pc = "return" /\ ret.ok
    /\ args.anchor = "center"
    /\ (args.w - args.target_w) % 2 = 1
    /\ args.h > args.target_h

\* C7, as claimed: for every image and target size an anchor outside the
\* five fails with the unknown-anchor error.
UnknownAnchorAlwaysRejectedAsSuch ==
    (pc = "return" /\ args.anchor \notin Anchors)
    => ret = ValueError(UnknownAnchorMsg)

\* C7, amended: an anchor outside the five fails with the unknown-anchor
\* ValueError when the image is at least as large as the target, and that
\* error's message is not the internal-size error's; when the image is
\* smaller than the target on an axis the internal-size ValueError is
\* raised instead.
UnknownAnchorRejectedUnlessTooSmall ==
    (pc = "return" /\ args.anchor \notin Anchors)
    => /\ ~ret.ok
       /\ ret.type = "ValueError"
       /\ IF args.w < args.target_w \/ args.h < args.target_h
          THEN ret.msg = TooSmallMsg
          ELSE ret.msg = UnknownAnchorMsg /\ ret.msg # TooSmallMsg

\* an unknown anchor on an image large enough has been rejected
UnknownAnchorRejected ==
    /\ pc = "return"
    /\ args.anchor = "Center"
    /\ args.w > args.target_w /\ args.h >= args.target_h
    /\ ~ret.ok /\ ret.msg = UnknownAnchorMsg

(***************************************************************************)
(* Properties of parse_tiles (SpecParse).                                  *)
(***************************************************************************)
Separators == {"x", "X", "*"}

\* the spec's error kinds, by the message raised
InvalidFormat(r) ==
    /\ ~r.ok
    /\ r.msg \in {"Tiles must look like 2x4 or 2*4", "Tiles must be integers, like 2x4"}

InvalidValue(r) == ~r.ok /\ r.msg = "Tiles must be positive integers"

\* the token with the character at position i replaced by c
WithChar(tok, i, c) == [tok EXCEPT ![i] = c]

\* C8: parse_tiles returns a pair of integers > 0 or fails: with the
\* invalid-format error when the token has no separator (x, X or *) or a
\* field around the first separator is no integer, with the invalid-value
\* error when both fields are integers and one is <= 0; and a token gives
\* the same result with any separator written in place of another.
ParseTilesContract ==
    pc = "return" =>
        LET seps == {i \in 1..Len(args) : args[i] \in Separators}
            first == CHOOSE i \in seps : \A j \in seps : i <= j
            a == SubSeq(args, 1, first - 1)
            b == SubSeq(args, first + 1, Len(args))
        IN  /\ IF seps = {} THEN InvalidFormat(ret)
               ELSE IF ~IntOk(a) \/ ~IntOk(b) THEN InvalidFormat(ret)
               ELSE IF IntVal(a) <= 0 \/ IntVal(b) <= 0 THEN InvalidValue(ret)
               ELSE ret = Returns(<<IntVal(a), IntVal(b)>>)
            /\ ret.ok => ret.value[1] > 0 /\ ret.value[2] > 0
            /\ ~ret.ok => InvalidFormat(ret) \/ InvalidValue(ret)
            /\ \A i \in seps : \A c \in Separators :
                  parse_tiles(WithChar(args, i, c)) = ret

\* a token with the separator * has been parsed to a pair
ParsedStarToken ==
    /\ pc = "return"
    /\ args = <<"1", "*", "1", "0">>
    /\ ret = Returns(<<1, 10>>)

(***************************************************************************)
(* Properties of tile_image (SpecTile).                                    *)
(***************************************************************************)
\* C10: the canvas returned has exactly the size (tw * tiles_x,
\* th * tiles_y); a tile copy was pasted at every (col * tw, row * th) for
\* col in [0, tiles_x) and row in [0, tiles_y), once each and nowhere
\* else; every canvas pixel (px, py) lies under exactly one copy and holds
\* the tile pixel (px mod tw, py mod th).  For a square tile tw = th is
\* the tile edge.
TileGridExactCover ==
    pc = "done" =>
        LET grid == {<<col * args.tw, row * args.th>> :
                        col \in 0..(args.tiles_x - 1), row \in 0..(args.tiles_y - 1)}
        IN  /\ ret.size = <<args.tw * args.tiles_x, args.th * args.tiles_y>>
            /\ DOMAIN ret.px = (0..(ret.size[1] - 1)) \X (0..(ret.size[2] - 1))
            /\ {pastes[k] : k \in 1..Len(pastes)} = grid
            /\ Len(pastes) = args.tiles_x * args.tiles_y
            /\ \A p \in DOMAIN ret.px :
                  /\ Cardinality({k \in 1..Len(pastes) :
                         Covered(pastes[k], args.tw, args.th, p)}) = 1
                  /\ ret.px[p] = <<p[1] % args.tw, p[2] % args.th>>

\* a square tile of edge 2 has been tiled 2 by 3
TiledTwoByThree ==
    /\ pc = "done"
    /\ args = [tw |-> 2, th |-> 2, tiles_x |-> 2, tiles_y |-> 3]
    /\ ret.size = <<4, 6>>
    /\ Len(pastes) = 6

(***************************************************************************)
(* Properties of make_pattern_wallpaper and main (Spec).                   *)
(***************************************************************************)
\* whether the stage was entered in this run
Ran(stage) == \E i \in 1..Len(trace) : trace[i] = stage

\* whether the stage was entered and left without an exception
Completed(stage) ==
    Ran(stage) /\ ~(pc = "failed" /\ trace[Len(trace)] = stage)

\* C2: the image written at the save step has exactly the target's width
\* and height, whatever the tile's size, the counts, the target and the
\* anchor.
OutputHasTargetSize ==
    file.exists =>
        /\ FromInt(file.size[1]) = call.target.width_px
        /\ FromInt(file.size[2]) = call.target.height_px

\* a non-square tile was tiled to a canvas larger than the target, cropped
\* at an anchor other than the default, and saved
SavedCroppedNonSquare ==
    /\ file.exists
    /\ input.size[1] # input.size[2]
    /\ call.anchor = "topright"
    /\ tiled.size[1] > file.size[1] /\ tiled.size[2] > file.size[2]

\* C3: the canvas handed to crop_to_target is at least as large as the
\* target on both axes, and no run ends with the internal "image too small
\* to crop" error.
CanvasCoversTarget ==
    /\ Completed("tile") =>
          ~TooSmall(tiled.size[1], tiled.size[2],
                    call.target.width_px, call.target.height_px)
    /\ err.msg # TooSmallMsg

\* crop_to_target has run on a canvas larger than the target and returned
CroppedLargerCanvas ==
    /\ Completed("crop")
    /\ BLess(call.target.width_px, FromInt(tiled.size[1]))
    /\ out.size # tiled.size

\* C4: with the square check on, a non-square tile ends the run at the
\* check with the ValueError "Input tile must be square", before the
\* effective size is computed and before resize, tiling, crop and save,
\* and no file is written; with the check off the same tile does not
\* raise it and the run goes on to the effective-size stage.
SquareCheckFailsFast ==
    (Ran("square_check") /\ input.size[1] # input.size[2]) =>
        IF call.force_square_check
        THEN /\ pc = "failed"
             /\ err = ValueError(NotSquareMsg)
             /\ trace[Len(trace)] = "square_check"
             /\ \A st \in {"effective_size", "resize", "tile", "crop",
                          "convert", "save"} : ~Ran(st)
             /\ eff = <<>> /\ tile.size = input.size
             /\ tiled = NoImage /\ out = NoImage
             /\ file = Absent
        ELSE /\ err.msg # NotSquareMsg
             /\ pc = "effective_size" \/ Ran("effective_size")

\* a non-square tile was refused by the square check
NonSquareRefused ==
    /\ pc = "failed"
    /\ err.msg = NotSquareMsg
    /\ input.size = <<2, 1>>
    /\ call.force_square_check

StageOrder ==
    <<"parse_args", "makedirs", "load", "square_check", "effective_size",
      "resize", "tile", "crop", "convert", "save", "done">>

\* C5: the stages run in one fixed order with the write of the output
\* file last; a stage that fails ends the run there: nothing runs after
\* it and no file exists at the output path; a file is written only after
\* every stage before the save has completed.
PipelineLinearSaveLast ==
    LET start == IF args = <<>> THEN 3 ELSE 1
        n == Len(trace)
    IN  /\ trace = SubSeq(StageOrder, start, start + n - 1)
        /\ pc # "failed" => pc = StageOrder[start + n] /\ err = NoError
        /\ pc = "failed" =>
              /\ err # NoError
              /\ n > 0
              /\ file = Absent
              /\ ~ENABLED Next
        /\ file # Absent =>
              /\ pc = "done"
              /\ \A st \in {"load", "square_check", "effective_size", "resize",
                           "tile", "crop", "convert", "save"} : Ran(st)

\* a run failed at the anchor validation of the crop, after tiling
FailedAtCrop ==
    /\ pc = "failed"
    /\ trace[Len(trace)] = "crop"
    /\ err.msg = UnknownAnchorMsg
    /\ tiled # NoImage
    /\ file = Absent

\* C9: the area of the canvas is bounded by a constant multiple of the
\* target's area, whatever the counts: the canvas is only marginally
\* larger than the output (here: at most 4 times its area, the factor of
\* a canvas below twice the target on each axis).
CanvasAreaWithinConstantOfTarget ==
    Completed("tile") =>
        tiled.size[1] * tiled.size[2]
            <= 4 * ToInt(call.target.width_px) * ToInt(call.target.height_px)

====
